---- MODULE Spec2Model ----
(***************************************************************************)
(* Model of the GitHub data collection scripts:                            *)
(*   src/src/api_fetch.py     the Collector (rate-limit guard, paginated   *)
(*                            fetch of issues and commits, snapshot files) *)
(*   src/src/write_to_all.py  the Merger (glob, load, re-key, write)       *)
(*                                                                         *)
(* JSON values are tagged tuples:                                          *)
(*   <<"obj", pairs>>  a mapping, pairs a sequence of <<key, value>> in    *)
(*                     insertion order (a Python dict), keys are strings   *)
(*                     given as token sequences (see below)                *)
(*   <<"arr", items>>  a list                                              *)
(*   <<"str", s>>      a string                                            *)
(*   <<"num", n>>      a number                                            *)
(*   <<"null">>        None                                                *)
(* A string is a sequence of tokens; "/" and "_" are tokens of their own,  *)
(* so that str.replace('/', '_') and substring tests are computed.         *)
(***************************************************************************)
EXTENDS Integers, Sequences, FiniteSets, TLC

(***************************************************************************)
(* Bounds of the model.                                                    *)
(***************************************************************************)
\* per_page is 100 in the source (api_fetch.py:62 and :114); the model runs
\* the same loop with a page size small enough to enumerate every batch.
PerPage == 3
\* caps handed to fetch_issues / fetch_commits are drawn from 0..MaxCap
MaxCap == 4
\* number of page responses the server gives to one fetch
MaxPages == 2
\* number of pages of a paginated source, the empty last page included
SourcePages == 3
\* the Collector run: main's caps (max_issues=100, max_commits=100 in the
\* source, api_fetch.py:207 and :210) and the length of the prefix of
\* REPOSITORIES it works through
MainCap == 1
NumRepos == 2
\* the Merger: files in data/raw before its first run, runs of the script,
\* and the seconds the clock can advance
MaxFiles == 2
MaxRuns == 2
MaxTime == 1

(***************************************************************************)
(* JSON values and the Python operations the scripts apply to them.        *)
(***************************************************************************)
Obj(pairs) == <<"obj", pairs>>
Arr(items) == <<"arr", items>>
Str(s) == <<"str", s>>
Num(n) == <<"num", n>>
Null == <<"null">>

IsObj(v) == v[1] = "obj"
IsArr(v) == v[1] = "arr"
IsStr(v) == v[1] = "str"

\* positions of key k in a dict (at most one: Put keeps keys unique)
KeyPos(d, k) == {i \in 1..Len(d[2]) : d[2][i][1] = k}
HasKey(d, k) == KeyPos(d, k) # {}
Get(d, k) == d[2][CHOOSE i \in KeyPos(d, k) : TRUE][2]
\* d[k] = v on a dict: replace in place, or insert at the end
Put(d, k, v) ==
    IF HasKey(d, k)
    THEN Obj([i \in 1..Len(d[2]) |-> IF d[2][i][1] = k THEN <<k, v>> ELSE d[2][i]])
    ELSE Obj(Append(d[2], <<k, v>>))

Min(a, b) == IF a < b THEN a ELSE b
\* a faulty variant of Slice, without the truncation (sensitivity of C1)
SliceNoCut(seq, n) == seq
\* seq[:n] for n >= 0
Slice(seq, n) == SubSeq(seq, 1, Min(Len(seq), n))
(***************************************************************************)
(* The server's answers to page requests.                                  *)
(***************************************************************************)
\* an item of a page: k is the request that delivered it, j its position
Item(k, j, pr) ==
    Obj(<< <<(<<"id">>), Arr(<<Num(k), Num(j)>>)>> >>
        \o (IF pr THEN << <<(<<"pull_request">>), Obj(<<>>)>> >> ELSE <<>>))

\* bodies of a non-success response: a JSON object with a message, a JSON
\* object without one, and a body that is not JSON (a gateway's HTML page)
NotJson == <<"not_json">>
ErrorBodies == { Obj(<< <<(<<"message">>), Str(<<"rate limit exceeded">>)>> >>),
                 Obj(<<>>),
                 NotJson }
ErrorCodes == {403}

Response(code, body) == [status_code |-> code, body |-> body]

\* every batch the server can send as the answer to request k
Batches(k) ==
    UNION { { Arr([j \in 1..n |-> Item(k, j, prs[j])]) : prs \in [1..n -> BOOLEAN] }
            : n \in 0..PerPage }
Responses(k) ==
    { Response(200, b) : b \in Batches(k) }
    \cup { Response(c, b) : c \in ErrorCodes, b \in ErrorBodies }
\* the same, by request number
ResponsesTo == [k \in 1..MaxPages |-> Responses(k)]

(***************************************************************************)
(* fetch_issues and fetch_commits: the state of the while loop and one     *)
(* iteration of it, given the response to the iteration's request.         *)
(*   pc = "request"   the loop condition held, the next request is due     *)
(*   pc = "returned"  the function returned ret                            *)
(*   pc = "raised"    an exception left the function                       *)
(***************************************************************************)
FetchStart(max) ==
    [items |-> <<>>, page |-> 1, reqs |-> <<>>,
     pc |-> IF 0 < max THEN "request" ELSE "returned",
     ret |-> <<>>]

Returned(st, items, page, max) ==
    [items |-> items, page |-> page, reqs |-> Append(st.reqs, st.page),
     pc |-> "returned", ret |-> Slice(items, max)]
\* a faulty variant of Again that does not advance the page (sensitivity of C3)
AgainSamePage(st, items, page) ==
    [items |-> items, page |-> st.page, reqs |-> Append(st.reqs, st.page),
     pc |-> "request", ret |-> <<>>]
Again(st, items, page) ==
    [items |-> items, page |-> page, reqs |-> Append(st.reqs, st.page),
     pc |-> "request", ret |-> <<>>]
Raised(st) ==
    [items |-> st.items, page |-> st.page, reqs |-> Append(st.reqs, st.page),
     pc |-> "raised", ret |-> <<>>]

\* the else branch: print the status and response.json().get('message', ...)
ErrorBranch(st, resp, max) ==
    IF resp.body = NotJson
    THEN Raised(st)
    ELSE Returned(st, st.items, st.page, max)

\* [issue for issue in batch if 'pull_request' not in issue]
RECURSIVE ActualIssues(_)
ActualIssues(batch) ==
    IF batch = <<>> THEN <<>>
    ELSE (IF ~HasKey(Head(batch), <<"pull_request">>) THEN <<Head(batch)>> ELSE <<>>)
         \o ActualIssues(Tail(batch))

IssuesIter(st, resp, max) ==
    IF resp.status_code = 200
    THEN LET batch == resp.body[2]
         IN  IF Len(batch) = 0
             THEN Returned(st, st.items, st.page, max)
             ELSE LET actual_issues == ActualIssues(batch)
                      issues == st.items \o actual_issues
                  IN  IF Len(issues) >= max
                      THEN Returned(st, issues, st.page + 1, max)
                      ELSE Again(st, issues, st.page + 1)
    ELSE ErrorBranch(st, resp, max)

\* a faulty variant of CommitsIter without the short-page break, as in
\* fetch_issues (sensitivity of C10)
CommitsIterNoShortBreak(st, resp, max) ==
    IF resp.status_code = 200
    THEN LET batch == resp.body[2]
         IN  IF Len(batch) = 0
             THEN Returned(st, st.items, st.page, max)
             ELSE LET commits == st.items \o batch
                  IN  IF Len(commits) < max
                      THEN Again(st, commits, st.page + 1)
                      ELSE Returned(st, commits, st.page + 1, max)
    ELSE ErrorBranch(st, resp, max)

CommitsIter(st, resp, max) ==
    IF resp.status_code = 200
    THEN LET batch == resp.body[2]
         IN  IF Len(batch) = 0
             THEN Returned(st, st.items, st.page, max)
             ELSE LET commits == st.items \o batch
                  IN  IF Len(batch) < PerPage
                      THEN Returned(st, commits, st.page + 1, max)
                      ELSE IF Len(commits) < max
                           THEN Again(st, commits, st.page + 1)
                           ELSE Returned(st, commits, st.page + 1, max)
    ELSE ErrorBranch(st, resp, max)

FetchIter(kind, st, resp, max) ==
    IF kind = "issues" THEN IssuesIter(st, resp, max) ELSE CommitsIter(st, resp, max)

(***************************************************************************)
(* Configuration of the scripts and the files they write.                  *)
(***************************************************************************)
REPOSITORIES ==
    << <<"pandas-dev", "/", "pandas">>,
       <<"numpy", "/", "numpy">>,
       <<"scikit-learn", "/", "scikit-learn">>,
       <<"apache", "/", "airflow">>,
       <<"mlflow", "/", "mlflow">> >>
\* the repositories a run of the model works through
Repos == SubSeq(REPOSITORIES, 1, NumRepos)

\* str.replace(old, new) on a token sequence
Replace(s, old, new) == [i \in 1..Len(s) |-> IF s[i] = old THEN new ELSE s[i]]
\* datetime.now().strftime("%Y%m%d_%H%M%S") at clock value t (in seconds)
Strftime(t) == ToString(t)
\* f'{repo_name}_{timestamp}.json' and f'all_repos_{timestamp}.json'
RepoFileName(repo, ts) == Replace(repo, "/", "_") \o <<"_", ts, ".json">>
AllReposFileName(ts) == <<"all", "_", "repos", "_", ts, ".json">>

\* open(filepath, 'w') and json.dump: the file is created, or replaced
NamePos(fls, name) == {i \in 1..Len(fls) : fls[i].name = name}
FileExists(fls, name) == NamePos(fls, name) # {}
WriteFile(fls, name, data) ==
    IF FileExists(fls, name)
    THEN [i \in 1..Len(fls) |->
            IF fls[i].name = name THEN [name |-> name, content |-> data] ELSE fls[i]]
    ELSE Append(fls, [name |-> name, content |-> data])
ReadFile(fls, name) == fls[CHOOSE i \in NamePos(fls, name) : TRUE].content

\* answers to GET /rate_limit; a non-success answer carries no usable count
PreflightMin == 100
LoopMin == 50
RateLimitResponses ==
    { [status_code |-> 200, remaining |-> r] : r \in {49, 50, 100} }
    \cup { [status_code |-> 403, remaining |-> 5000] }
\* a faulty variant of check_rate_limit that reads the count of any answer
\* (sensitivity of C5)
check_rate_limit_any_status(resp) == resp.remaining
check_rate_limit(resp) ==
    IF resp.status_code = 200 THEN resp.remaining ELSE 0

\* answers to GET /repos/{repo}
InfoResponses ==
    { Response(200, Obj(<< <<(<<"stargazers_count">>), Num(1)>> >>)),
      Response(404, Obj(<< <<(<<"message">>), Str(<<"Not Found">>)>> >>)) }
fetch_repo_info(resp) ==
    IF resp.status_code = 200 THEN resp.body ELSE Null

\* the answers the server gives to the page requests of a Collector run: an
\* empty page, a page of one issue or commit, a page of one pull request,
\* and the non-success answers
CollectorResponses(k) ==
    { Response(200, Arr(<<>>)),
      Response(200, Arr(<<Item(k, 1, FALSE)>>)),
      Response(200, Arr(<<Item(k, 1, TRUE)>>)) }
    \cup { Response(c, b) : c \in ErrorCodes, b \in ErrorBodies }
\* every way a fetch called by main can end within budget requests
RECURSIVE FetchRuns(_, _, _, _)
FetchRuns(k, st, cap, budget) ==
    IF st.pc # "request" THEN { st }
    ELSE IF budget = 0 THEN {}
    ELSE UNION { FetchRuns(k, FetchIter(k, st, resp, cap), cap, budget - 1) :
                   resp \in CollectorResponses(st.page) }

VARIABLES
    kind,       \* which fetch is called: "issues" or "commits"
    max,        \* its cap (max_issues / max_commits)
    source,     \* a paginated source fixed in advance (page p is source[p])
    script,     \* the responses the server has given to the requests so far
    fetch,      \* the state of the fetch's loop
    now,        \* the wall clock, in seconds
    dir_exists, \* whether data/raw exists
    files,      \* the files of data/raw in directory order: [name, content]
    writes,     \* history: the files written so far, [name, run, fresh]
    requests,   \* history: the endpoints the Collector sent requests to
    preflight,  \* history: the answer to the Collector's first rate-limit check
    cpc,        \* where the Collector's main is
    remainig,   \* main's local of the pre-flight check (sic)
    remaining,  \* main's local of the check made after a repository
    timestamp,  \* main's run timestamp
    ri,         \* the index of the for loop's repo in the list
    repo_data,  \* main's repo_data
    all_data,   \* main's all_data
    run,        \* the number of Merger runs started
    mpc,        \* where the Merger is
    merger_timestamp,   \* write_to_all.py's module-level timestamp
    json_files, \* main's json_files, the names in glob order
    mi,         \* the index of the for loop's json_file
    combined_data,      \* main's combined_data
    loaded      \* history: the contents the Merger's loop has read in this run

fetchVars == <<kind, max, source, script, fetch>>
fsVars == <<dir_exists, files, writes>>
collectorVars == <<requests, preflight, cpc, remainig, remaining, timestamp,
                   ri, repo_data, all_data>>
mergerVars == <<run, mpc, merger_timestamp, json_files, mi, combined_data, loaded>>
vars == <<kind, max, source, script, fetch, now, dir_exists, files, writes,
          requests, preflight, cpc, remainig, remaining, timestamp, ri,
          repo_data, all_data, run, mpc, merger_timestamp, json_files, mi,
          combined_data, loaded>>

\* the state of a script that is not run
FetchIdle ==
    /\ kind = "none" /\ max = 0 /\ source = <<>> /\ script = <<>>
    /\ fetch = [items |-> <<>>, page |-> 1, reqs |-> <<>>, pc |-> "idle", ret |-> <<>>]
NoResponse == [status_code |-> 0, remaining |-> 0]
CollectorIdle ==
    /\ requests = <<>> /\ preflight = NoResponse /\ cpc = "idle"
    /\ remainig = 0 /\ remaining = 0 /\ timestamp = "" /\ ri = 0
    /\ repo_data = Null /\ all_data = Null
MergerIdle ==
    /\ run = 0 /\ mpc = "idle" /\ merger_timestamp = "" /\ json_files = <<>>
    /\ mi = 0 /\ combined_data = Null /\ loaded = <<>>
EmptyDisk ==
    /\ now = 0 /\ dir_exists = FALSE /\ files = <<>> /\ writes = <<>>

(***************************************************************************)
(* A fetch against a server that may answer each request with anything.    *)
(***************************************************************************)
InitFetch ==
    /\ kind \in {"issues", "commits"}
    /\ max \in 0..MaxCap
    /\ source = <<>>
    /\ script = <<>>
    /\ fetch = FetchStart(max)
    /\ EmptyDisk /\ CollectorIdle /\ MergerIdle

\* one iteration of the loop: the request for fetch.page and its response
FetchPage ==
    /\ fetch.pc = "request"
    /\ Len(script) < MaxPages
    /\ \E resp \in ResponsesTo[Len(script) + 1] :
          /\ script' = Append(script, resp)
          /\ fetch' = FetchIter(kind, fetch, resp, max)
    /\ UNCHANGED <<kind, max, source, now, fsVars, collectorVars, mergerVars>>

NextFetch == FetchPage
SpecFetch == InitFetch /\ [][NextFetch]_vars

(***************************************************************************)
(* A fetch against a paginated source: every page is a success, each page  *)
(* is shorter than the one before it and the last page is the empty one.   *)
(***************************************************************************)
\* the batches that can follow the pages of src: not empty, shorter than the
\* page before
NextBatches(src) ==
    { b \in Batches(Len(src) + 1) :
        /\ Len(b[2]) > 0
        /\ src # <<>> => Len(b[2]) < Len(src[Len(src)].body[2]) }
RECURSIVE PagedSources(_)
PagedSources(n) ==
    IF n = 0 THEN { <<>> }
    ELSE UNION { { Append(src, Response(200, b)) : b \in NextBatches(src) }
                 : src \in PagedSources(n - 1) }
Sources ==
    { Append(src, Response(200, Arr(<<>>))) :
        src \in UNION { PagedSources(n) : n \in 0..(SourcePages - 1) } }

InitPaged ==
    /\ kind \in {"issues", "commits"}
    /\ max \in 0..MaxCap
    /\ source \in Sources
    /\ script = <<>>
    /\ fetch = FetchStart(max)
    /\ EmptyDisk /\ CollectorIdle /\ MergerIdle

\* one iteration of the loop, the request for fetch.page answered by the source
FetchFromSource ==
    /\ fetch.pc = "request"
    /\ fetch.page \in 1..Len(source)
    /\ script' = Append(script, source[fetch.page])
    /\ fetch' = FetchIter(kind, fetch, source[fetch.page], max)
    /\ UNCHANGED <<kind, max, source, now, fsVars, collectorVars, mergerVars>>

NextPaged == FetchFromSource
SpecPaged == InitPaged /\ [][NextPaged]_vars

(***************************************************************************)
(* The Collector: main of api_fetch.py, one action per request or write.   *)
(*   cpc = "start"      before the pre-flight check                        *)
(*   cpc = "info" .. "check"   inside the for loop, at repository ri       *)
(*   cpc = "save_all"   after the loop                                     *)
(*   cpc = "returned"   main returned                                      *)
(*   cpc = "crashed"    an exception left main                             *)
(***************************************************************************)
InitCollector ==
    /\ FetchIdle /\ MergerIdle
    /\ now = 0 /\ dir_exists \in BOOLEAN /\ files = <<>> /\ writes = <<>>
    /\ requests = <<>> /\ preflight = NoResponse /\ cpc = "start"
    /\ remainig = 0 /\ remaining = 0 /\ timestamp = "" /\ ri = 0
    /\ repo_data = Null /\ all_data = Null

\* the requests history records which endpoint of which repository was
\* asked; the page requests of one fetch are recorded once
Request(endpoint, repo) == [endpoint |-> endpoint, repo |-> repo]
RateLimitRequest == Request("rate_limit", <<>>)
PageRequests(k, repo, pages) ==
    IF pages = <<>> THEN <<>> ELSE <<Request(k, repo)>>

\* save_data(data, filename)
save_data(data, filename) ==
    /\ dir_exists' = TRUE
    /\ files' = WriteFile(files, filename, data)
    /\ writes' = Append(writes, [name |-> filename, run |-> run,
                                 fresh |-> ~FileExists(files, filename)])

\* lines 177-188: the pre-flight check, the run timestamp, all_data = {}
Preflight ==
    /\ cpc = "start"
    /\ \E resp \in RateLimitResponses :
          /\ preflight' = resp
          /\ remainig' = check_rate_limit(resp)
          /\ requests' = Append(requests, RateLimitRequest)
          /\ IF check_rate_limit(resp) < PreflightMin
             THEN /\ cpc' = "returned"
                  /\ UNCHANGED <<timestamp, all_data, ri>>
             ELSE /\ timestamp' = Strftime(now)
                  /\ all_data' = Obj(<<>>)
                  /\ IF Len(Repos) > 0
                     THEN ri' = 1 /\ cpc' = "info"
                     ELSE ri' = 0 /\ cpc' = "save_all"
    /\ UNCHANGED <<fetchVars, mergerVars, now, fsVars, remaining, repo_data>>

\* lines 195-204: a fresh repo_data and fetch_repo_info(repo)
RepoInfo ==
    /\ cpc = "info"
    /\ \E resp \in InfoResponses :
          repo_data' = Obj(<< <<(<<"repository">>), Str(Repos[ri])>>,
                              <<(<<"collected at">>), Str(<<Strftime(now)>>)>>,
                              <<(<<"info">>), fetch_repo_info(resp)>>,
                              <<(<<"issues">>), Arr(<<>>)>>,
                              <<(<<"commits">>), Arr(<<>>)>> >>)
    /\ requests' = Append(requests, Request("info", Repos[ri]))
    /\ cpc' = "issues"
    /\ UNCHANGED <<fetchVars, mergerVars, now, fsVars, preflight, remainig, remaining,
                   timestamp, ri, all_data>>

\* line 207: repo_data['issues'] = fetch_issues(repo, max_issues=100)
CollectIssues ==
    /\ cpc = "issues"
    /\ \E st \in FetchRuns("issues", FetchStart(MainCap), MainCap, MaxPages) :
          /\ requests' = requests \o PageRequests("issues", Repos[ri], st.reqs)
          /\ IF st.pc = "raised"
             THEN cpc' = "crashed" /\ UNCHANGED repo_data
             ELSE /\ cpc' = "commits"
                  /\ repo_data' = Put(repo_data, <<"issues">>, Arr(st.ret))
    /\ UNCHANGED <<fetchVars, mergerVars, now, fsVars, preflight, remainig, remaining,
                   timestamp, ri, all_data>>

\* line 210: repo_data['commits'] = fetch_commits(repo, max_commits=100)
CollectCommits ==
    /\ cpc = "commits"
    /\ \E st \in FetchRuns("commits", FetchStart(MainCap), MainCap, MaxPages) :
          /\ requests' = requests \o PageRequests("commits", Repos[ri], st.reqs)
          /\ IF st.pc = "raised"
             THEN cpc' = "crashed" /\ UNCHANGED repo_data
             ELSE /\ cpc' = "save"
                  /\ repo_data' = Put(repo_data, <<"commits">>, Arr(st.ret))
    /\ UNCHANGED <<fetchVars, mergerVars, now, fsVars, preflight, remainig, remaining,
                   timestamp, ri, all_data>>

\* lines 213-216: all_data[repo] = repo_data and the repository's own file
SaveRepo ==
    /\ cpc = "save"
    /\ all_data' = Put(all_data, Repos[ri], repo_data)
    /\ save_data(repo_data, RepoFileName(Repos[ri], timestamp))
    /\ cpc' = "check"
    /\ UNCHANGED <<fetchVars, mergerVars, now, requests, preflight, remainig, remaining,
                   timestamp, ri, repo_data>>

\* lines 219-222 and the for statement: break, next repository or loop end
CheckAfterRepo ==
    /\ cpc = "check"
    /\ \E resp \in RateLimitResponses :
          /\ remaining' = check_rate_limit(resp)
          /\ requests' = Append(requests, RateLimitRequest)
          /\ IF check_rate_limit(resp) < LoopMin
             THEN cpc' = "save_all" /\ UNCHANGED ri
             ELSE IF ri < Len(Repos)
                  THEN cpc' = "info" /\ ri' = ri + 1
                  ELSE cpc' = "save_all" /\ UNCHANGED ri
    /\ UNCHANGED <<fetchVars, mergerVars, now, fsVars, preflight, remainig, timestamp,
                   repo_data, all_data>>

\* line 225: save_data(all_data, f'all_repos_{timestamp}.json')
SaveAll ==
    /\ cpc = "save_all"
    /\ save_data(all_data, AllReposFileName(timestamp))
    /\ cpc' = "returned"
    /\ UNCHANGED <<fetchVars, mergerVars, now, requests, preflight, remainig, remaining,
                   timestamp, ri, repo_data, all_data>>

NextCollector ==
    \/ Preflight
    \/ RepoInfo
    \/ CollectIssues
    \/ CollectCommits
    \/ SaveRepo
    \/ CheckAfterRepo
    \/ SaveAll
SpecCollector == InitCollector /\ [][NextCollector]_vars

(***************************************************************************)
(* The Merger: write_to_all.py.                                            *)
(***************************************************************************)
KEYS ==
    << <<"pandas-dev", "/", "pandas">>,
       <<"numpy", "/", "numpy">>,
       <<"scikit-learn", "/", "scikit-learn">>,
       <<"apache", "/", "airflow">>,
       <<"mlflow", "/", "mlflow">> >>
CombinedFileName(ts) == <<"combined", "_", "data", "_", ts, ".json">>

\* a faulty variant of Glob that matches every name (sensitivity of C8)
GlobAnyName(fls) == [i \in 1..Len(fls) |-> fls[i].name]
\* raw_data_dir.glob("*.json") on the directory's files, in directory order
RECURSIVE Glob(_)
Glob(fls) ==
    IF fls = <<>> THEN <<>>
    ELSE (IF Head(fls).name[Len(Head(fls).name)] = ".json"
          THEN <<Head(fls).name>> ELSE <<>>) \o Glob(Tail(fls))

\* the outcome of a try block that raised
Failed == <<"raised">>
\* Python's `key in data`, defined for dicts, lists and strings
IsInfix(k, s) == \E i \in 0..(Len(s) - Len(k)) : SubSeq(s, i + 1, i + Len(k)) = k
SupportsIn(data) == IsObj(data) \/ IsArr(data) \/ IsStr(data)
Contains(data, key) ==
    IF IsObj(data) THEN HasKey(data, key)
    ELSE IF IsArr(data) THEN \E i \in 1..Len(data[2]) : data[2][i] = Str(key)
    ELSE IsInfix(key, data[2])

\* lines 62-64: for key in KEYS[i..]: if key in data: data[key]['repository'] = key
RECURSIVE StampKeys(_, _)
StampKeys(data, i) ==
    IF i > Len(KEYS) THEN data
    ELSE IF ~SupportsIn(data) THEN Failed
    ELSE IF ~Contains(data, KEYS[i]) THEN StampKeys(data, i + 1)
    ELSE IF ~IsObj(data) THEN Failed
    ELSE IF ~IsObj(Get(data, KEYS[i])) THEN Failed
    ELSE StampKeys(Put(data, KEYS[i],
                       Put(Get(data, KEYS[i]), <<"repository">>, Str(KEYS[i]))),
                   i + 1)

\* a faulty variant of LoadInto that drops the result so far when a file does
\* not parse (sensitivity of C7)
LoadIntoDroppingOnError(combined, content) ==
    IF content = NotJson THEN Obj(<<>>)
    ELSE LET data == StampKeys(content, 1)
         IN  IF data = Failed THEN combined
             ELSE Put(combined, KEYS[Len(KEYS)], data)
\* lines 59-68: the body of the for loop, on the file's content
\* (the assignment to combined_data is after the loop over KEYS, with the
\* loop variable's last value as the key)
LoadInto(combined, content) ==
    IF content = NotJson THEN combined
    ELSE LET data == StampKeys(content, 1)
         IN  IF data = Failed THEN combined
             ELSE Put(combined, KEYS[Len(KEYS)], data)

\* contents of the files found in data/raw before the first run
StoredValues ==
    { Obj(<< <<(<<"repository">>), Str(<<"stale">>)>> >>),
      Arr(<<>>) }
DocsOver(ks) ==
    UNION { { Obj([i \in 1..Len(sub) |-> <<sub[i], vals[i]>>]) :
                vals \in [1..Len(sub) -> StoredValues] }
            : sub \in { <<>> } \cup { <<ks[i]>> : i \in 1..Len(ks) }
                     \cup { <<ks[1], ks[2]>> } }
FileContents ==
    DocsOver(<<KEYS[2], KEYS[5]>>)
    \cup { Arr(<<Str(KEYS[2])>>), Num(7), Str(KEYS[2] \o <<" stats">>),
           Str(<<"notes">>), NotJson }
InitialFile(i) ==
    { [name |-> <<"old", ToString(i), ".json">>, content |-> c] : c \in FileContents }
    \cup { [name |-> <<"readme", ToString(i), ".txt">>, content |-> NotJson] }
RECURSIVE InitialFiles(_)
InitialFiles(n) ==
    IF n = 0 THEN { <<>> }
    ELSE { Append(fls, f) : fls \in InitialFiles(n - 1), f \in InitialFile(n) }

InitMerger ==
    /\ FetchIdle /\ CollectorIdle /\ MergerIdle
    /\ now = 0 /\ writes = <<>>
    /\ \/ dir_exists = FALSE /\ files = <<>>
       \/ dir_exists = TRUE /\ files \in UNION { InitialFiles(n) : n \in 0..MaxFiles }

\* the script is started: line 16
StartMerger ==
    /\ mpc \in {"idle", "done"}
    /\ run < MaxRuns
    /\ run' = run + 1
    /\ merger_timestamp' = Strftime(now)
    /\ mpc' = "main"
    /\ json_files' = <<>> /\ mi' = 0 /\ combined_data' = Null /\ loaded' = <<>>
    /\ UNCHANGED <<fetchVars, collectorVars, now, fsVars>>

\* lines 38-55: the directory test, the glob, combined_data = {}
MergerScan ==
    /\ mpc = "main"
    /\ IF ~dir_exists
       THEN mpc' = "done" /\ UNCHANGED <<json_files, mi, combined_data>>
       ELSE /\ json_files' = Glob(files)
            /\ IF Glob(files) = <<>>
               THEN mpc' = "done" /\ UNCHANGED <<mi, combined_data>>
               ELSE mpc' = "loop" /\ mi' = 1 /\ combined_data' = Obj(<<>>)
    /\ UNCHANGED <<fetchVars, collectorVars, now, fsVars, run, merger_timestamp,
                   loaded>>

\* lines 57-68: one iteration of the for loop
MergerLoad ==
    /\ mpc = "loop"
    /\ combined_data' = LoadInto(combined_data, ReadFile(files, json_files[mi]))
    /\ loaded' = Append(loaded, ReadFile(files, json_files[mi]))
    /\ IF mi < Len(json_files)
       THEN mi' = mi + 1 /\ mpc' = "loop"
       ELSE mi' = mi /\ mpc' = "save"
    /\ UNCHANGED <<fetchVars, collectorVars, now, fsVars, run, merger_timestamp,
                   json_files>>

\* lines 71-72: save_data(combined_data, f"combined_data_{timestamp}.json")
MergerSave ==
    /\ mpc = "save"
    /\ save_data(combined_data, CombinedFileName(merger_timestamp))
    /\ mpc' = "done"
    /\ UNCHANGED <<fetchVars, collectorVars, now, run, merger_timestamp,
                   json_files, mi, combined_data, loaded>>

\* a second of wall-clock time passes
Tick ==
    /\ now < MaxTime
    /\ now' = now + 1
    /\ UNCHANGED <<fetchVars, collectorVars, mergerVars, fsVars>>

NextMerger ==
    \/ StartMerger
    \/ MergerScan
    \/ MergerLoad
    \/ MergerSave
    \/ Tick
SpecMerger == InitMerger /\ [][NextMerger]_vars

(***************************************************************************)
(* What the claims speak of, stated from the responses alone.              *)
(***************************************************************************)
IsPullRequest(item) == \E i \in 1..Len(item[2]) : item[2][i][1] = <<"pull_request">>
\* the items of a success page that count for this kind of fetch
PageItems(k, resp) ==
    IF k = "issues" THEN SelectSeq(resp.body[2], LAMBDA it : ~IsPullRequest(it))
    ELSE resp.body[2]
\* the concatenation, in page order, of the items of success pages
RECURSIVE Concat(_, _)
Concat(k, pages) ==
    IF pages = <<>> THEN <<>>
    ELSE Concat(k, SubSeq(pages, 1, Len(pages) - 1)) \o PageItems(k, pages[Len(pages)])
OneTo(n) == [i \in 1..n |-> i]
AllSuccess(pages) == \A i \in 1..Len(pages) : pages[i].status_code = 200
PageSize(resp) == Len(resp.body[2])

\* C2 (as claimed): a non-success response to the request for page k ends the
\* fetch at once, by a return and not by an exception, after the requests
\* 1..k, with the items accumulated from pages 1..k-1 truncated to the cap.
C2_ErrorReturnsPartialResult ==
    \A k \in 1..Len(script) :
        script[k].status_code # 200 =>
            /\ Len(script) = k
            /\ fetch.reqs = OneTo(k)
            /\ fetch.pc = "returned"
            /\ fetch.ret = Slice(Concat(kind, SubSeq(script, 1, k - 1)), max)

\* C3 (as claimed): against a source of pages of strictly decreasing size
\* ending in an empty page, with a cap not below the total number of items,
\* the fetch terminates (every due request is answered by a page not yet
\* read) and returns the concatenation of all pages before the empty one.
DecreasingToEmpty(src) ==
    /\ src # <<>>
    /\ AllSuccess(src)
    /\ PageSize(src[Len(src)]) = 0
    /\ \A i \in 1..(Len(src) - 1) : PageSize(src[i]) > PageSize(src[i + 1])
RECURSIVE TotalItems(_)
TotalItems(src) ==
    IF src = <<>> THEN 0 ELSE PageSize(Head(src)) + TotalItems(Tail(src))
C3Case == DecreasingToEmpty(source) /\ max >= TotalItems(source)
C3_Terminates ==
    fetch.pc = "request" => (fetch.page = Len(script) + 1 /\ fetch.page <= Len(source))
C3_ConcatenatesAllPages ==
    C3Case =>
        /\ C3_Terminates
        /\ fetch.pc # "raised"
        /\ fetch.pc = "returned" =>
              fetch.ret = Concat(kind, SubSeq(source, 1, Len(source) - 1))

\* C3 (amended): as claimed for fetch_issues; fetch_commits returns the
\* concatenation of the pages up to and including the first page that is
\* shorter than the page size.
FirstShort(src) == CHOOSE i \in 1..Len(src) :
    /\ PageSize(src[i]) < PerPage
    /\ \A j \in 1..(i - 1) : PageSize(src[j]) >= PerPage
C3_ConcatenatesUpToShortPage ==
    C3Case =>
        /\ C3_Terminates
        /\ fetch.pc # "raised"
        /\ fetch.pc = "returned" =>
              fetch.ret = IF kind = "issues"
                          THEN Concat(kind, SubSeq(source, 1, Len(source) - 1))
                          ELSE Concat(kind, SubSeq(source, 1, FirstShort(source)))
\* a commits fetch that stopped at a short first page of two commits while
\* the source held a second page
C3_Witness ==
    /\ C3Case /\ kind = "commits" /\ fetch.pc = "returned"
    /\ Len(source) = 3 /\ fetch.reqs = <<1>>
    /\ fetch.ret = source[1].body[2] /\ Len(fetch.ret) = 2

\* C10: the requests of a fetch are for pages 1, 2, 3, ... in this order, and
\* page k+1 is requested exactly when page k was a success, held an item,
\* left the accumulated count below the cap and, for commits, was a full page.
Continues(k) ==
    /\ script[k].status_code = 200
    /\ PageSize(script[k]) > 0
    /\ Len(Concat(kind, SubSeq(script, 1, k))) < max
    /\ kind = "commits" => PageSize(script[k]) >= PerPage
C10_PageSequence ==
    LET n == Len(script)
    IN  /\ fetch.reqs = OneTo(n)
        /\ \A k \in 1..(n - 1) : Continues(k)
        /\ n = 0 => (fetch.pc = "request" <=> 0 < max)
        /\ n > 0 => (fetch.pc = "request" <=> Continues(n))
        /\ fetch.pc = "request" => fetch.page = n + 1
\* an issues fetch that went on past a page of pull requests only and past a
\* short page, and is about to request a third page
C10_Witness ==
    /\ kind = "issues" /\ Len(script) = 2 /\ fetch.pc = "request" /\ fetch.page = 3
    /\ PageSize(script[1]) = PerPage /\ PageItems(kind, script[1]) = <<>>
    /\ PageSize(script[2]) = 1 /\ Len(fetch.items) = 1

\* C1: a fetch returns at most its cap of items, fetch_issues none that is a
\* pull request; so no snapshot the Collector holds or has written has more
\* than main's cap of issues or of commits, or a pull request among its issues.
NoPullRequest(items) == \A i \in 1..Len(items) : ~IsPullRequest(items[i])
Field(d, name) ==
    LET hits == {i \in 1..Len(d[2]) : d[2][i][1] = <<name>>}
    IN  d[2][CHOOSE i \in hits : TRUE][2]
SnapshotWithinCap(snap) ==
    /\ Len(Field(snap, "issues")[2]) <= MainCap
    /\ NoPullRequest(Field(snap, "issues")[2])
    /\ Len(Field(snap, "commits")[2]) <= MainCap
C1_WithinCapNoPullRequests ==
    /\ fetch.pc = "returned" =>
          /\ Len(fetch.ret) <= max
          /\ kind = "issues" => NoPullRequest(fetch.ret)
    /\ repo_data # Null => SnapshotWithinCap(repo_data)
    /\ \A i \in 1..Len(files) :
          IF files[i].name = AllReposFileName(timestamp)
          THEN \A j \in 1..Len(files[i].content[2]) :
                  SnapshotWithinCap(files[i].content[2][j][2])
          ELSE SnapshotWithinCap(files[i].content)
\* a fetch_issues call that was sent pull requests and more issues than its cap
C1_Witness ==
    /\ kind = "issues" /\ fetch.pc = "returned" /\ max > 0
    /\ Len(fetch.items) > max /\ Len(fetch.ret) = max
    /\ \E k \in 1..Len(script) : \E j \in 1..PageSize(script[k]) :
          IsPullRequest(script[k].body[2][j])
SpecFetchCollect ==
    (InitFetch \/ InitCollector) /\ [][NextFetch \/ NextCollector]_vars

(***************************************************************************)
(* The Collector's run.                                                    *)
(***************************************************************************)
PassedPreflight == preflight.status_code = 200 /\ preflight.remaining >= PreflightMin
RepoIndex(repo) == CHOOSE i \in 1..Len(Repos) : Repos[i] = repo
RepoRequests == SelectSeq(requests, LAMBDA r : r.endpoint # "rate_limit")
\* the repositories the loop has finished the writing of
Processed ==
    IF cpc \in {"idle", "start"} \/ ~PassedPreflight THEN 0
    ELSE IF cpc \in {"info", "issues", "commits", "save", "crashed"} THEN ri - 1
    ELSE ri
IsAllReposEntry(pair, i) ==
    /\ pair[1] = Repos[i]
    /\ FileExists(files, RepoFileName(Repos[i], timestamp))
    /\ pair[2] = ReadFile(files, RepoFileName(Repos[i], timestamp))

\* C4, first part: repositories are taken in list order, and after a check
\* that returned fewer than 50 no later repository is requested
C4_ListOrderAndBreak ==
    /\ \A i \in 1..Len(RepoRequests) : \A j \in i..Len(RepoRequests) :
          RepoIndex(RepoRequests[i].repo) <= RepoIndex(RepoRequests[j].repo)
    /\ \A i \in 1..Len(RepoRequests) : RepoIndex(RepoRequests[i].repo) <= ri
    /\ (cpc \in {"info", "issues", "commits", "save", "check"} /\ ri > 1) =>
          remaining >= LoopMin
    /\ (cpc \in {"save_all", "returned"} /\ PassedPreflight /\ ri < Len(Repos)) =>
          /\ remaining < LoopMin
          /\ requests[Len(requests)] = RateLimitRequest
    /\ \A i \in 1..Processed :
          /\ i <= Len(writes)
          /\ writes[i].name = RepoFileName(Repos[i], timestamp)
\* C4, second part, at the end of a run that passed the pre-flight check: the
\* combined snapshot is the one write after the per-repository writes and has
\* one entry per repository processed, equal to the repository's own file
C4_CombinedWritten ==
    /\ Len(writes) = Processed + 1
    /\ writes[Len(writes)].name = AllReposFileName(timestamp)
    /\ LET combined == ReadFile(files, AllReposFileName(timestamp))
       IN  /\ Len(combined[2]) = Processed
           /\ \A i \in 1..Processed : IsAllReposEntry(combined[2][i], i)
\* C4 (as claimed): of every run that passed the pre-flight check
C4_CombinedWrittenOnceInEveryRun ==
    /\ C4_ListOrderAndBreak
    /\ (PassedPreflight /\ cpc \notin {"returned", "crashed"}) =>
          \A i \in 1..Len(writes) : writes[i].name # AllReposFileName(timestamp)
    /\ (PassedPreflight /\ cpc \in {"returned", "crashed"}) => C4_CombinedWritten
\* the same of the runs that no exception ends (holds; not the claim)
C4_CombinedWrittenOnceUnlessCrashed ==
    /\ C4_ListOrderAndBreak
    /\ (PassedPreflight /\ cpc \notin {"returned", "crashed"}) =>
          \A i \in 1..Len(writes) : writes[i].name # AllReposFileName(timestamp)
    /\ (PassedPreflight /\ cpc = "returned") => C4_CombinedWritten

\* C5: a pre-flight check that yields fewer than 100 remaining, as every
\* non-success answer does, ends the run with no request but the check's and
\* no file written
C5_PreflightAbort ==
    (preflight # NoResponse
     /\ (preflight.status_code # 200 \/ preflight.remaining < PreflightMin)) =>
        /\ cpc = "returned"
        /\ remainig < PreflightMin
        /\ requests = <<RateLimitRequest>>
        /\ writes = <<>> /\ files = <<>>
        /\ timestamp = "" /\ all_data = Null /\ repo_data = Null
C5_Witness ==
    /\ cpc = "returned" /\ preflight.status_code = 403 /\ remainig = 0
    /\ ~dir_exists

(***************************************************************************)
(* The Merger's run.                                                       *)
(***************************************************************************)
\* the files this run of the Merger has written
RunWrites == SelectSeq(writes, LAMBDA w : w.run = run)
\* a file the loop skips: it does not parse, or its processing raises
Skipped(content) == content = NotJson \/ StampKeys(content, 1) = Failed
Others == SelectSeq(loaded, LAMBDA c : ~Skipped(c))
\* the mapping the loop builds over a sequence of file contents
RECURSIVE MergedOver(_)
MergedOver(contents) ==
    IF contents = <<>> THEN Obj(<<>>)
    ELSE LoadInto(MergedOver(SubSeq(contents, 1, Len(contents) - 1)),
                  contents[Len(contents)])
WroteMerged(doc) ==
    /\ Len(RunWrites) = 1
    /\ RunWrites[1].name = CombinedFileName(merger_timestamp)
    /\ ReadFile(files, CombinedFileName(merger_timestamp)) = doc

\* C6 (as claimed): after a run over parseable files, every known identifier
\* K that is a top-level key of one of them is a key of the merged document,
\* with the value the last such file stores under K, its repository field
\* set to K.
HoldsKey(content, K) ==
    /\ IsObj(content)
    /\ \E i \in 1..Len(content[2]) : content[2][i][1] = K /\ IsObj(content[2][i][2])
LastWith(K) == CHOOSE i \in 1..Len(loaded) :
    /\ HoldsKey(loaded[i], K)
    /\ \A j \in (i + 1)..Len(loaded) : ~HoldsKey(loaded[j], K)
C6_MergedUnderOwnKey ==
    (mpc = "done" /\ loaded # <<>> /\ \A i \in 1..Len(loaded) : ~Skipped(loaded[i])) =>
        \A k \in 1..Len(KEYS) :
            (\E i \in 1..Len(loaded) : HoldsKey(loaded[i], KEYS[k])) =>
                /\ HasKey(combined_data, KEYS[k])
                /\ Get(combined_data, KEYS[k]) =
                      Put(Get(loaded[LastWith(KEYS[k])], KEYS[k]),
                          <<"repository">>, Str(KEYS[k]))
                /\ WroteMerged(combined_data)

\* C7 (as claimed): a skipped file leaves the result as it was, the files
\* after it are processed, and the run ends as a run over the other files
\* alone would: with their merged document written once, or, there being no
\* other file, with nothing written.
C7_SkipsLeaveResult ==
    /\ mpc \in {"loop", "save"} => combined_data = MergedOver(Others)
    /\ mpc \in {"save", "done"} => Len(loaded) = Len(json_files)
C7_AsRunOverOtherFiles ==
    /\ C7_SkipsLeaveResult
    /\ (mpc = "done" /\ \E i \in 1..Len(loaded) : Skipped(loaded[i])) =>
          IF Others = <<>> THEN RunWrites = <<>>
          ELSE WroteMerged(MergedOver(Others))
\* C7 (amended): the run writes, once, the mapping the loop builds over the
\* other files alone, which is the empty mapping when there is no other file
C7_WritesMergeOfOtherFiles ==
    /\ C7_SkipsLeaveResult
    /\ (mpc = "done" /\ \E i \in 1..Len(loaded) : Skipped(loaded[i])) =>
          WroteMerged(MergedOver(Others))
\* a run that skipped its first file, loaded its second and wrote the result
C7_Witness ==
    /\ mpc = "done" /\ Len(loaded) = 2
    /\ Skipped(loaded[1]) /\ ~Skipped(loaded[2])
    /\ WroteMerged(Obj(<< <<KEYS[Len(KEYS)], StampKeys(loaded[2], 1)>> >>))

\* C8: a run that finds no directory, or no JSON file in it, ends at once,
\* writes nothing and does not create the directory
NoJsonFile == \A i \in 1..Len(files) : files[i].name[Len(files[i].name)] # ".json"
C8_NothingToMerge ==
    [][(mpc = "main" /\ (~dir_exists \/ NoJsonFile)) =>
          (mpc' \in {"main", "done"} /\ UNCHANGED <<dir_exists, files, writes>>)]_vars
C8_Ends ==
    (mpc \in {"loop", "save"} \/ RunWrites # <<>>) =>
        (dir_exists /\ ~NoJsonFile)
C8_NoOutputWithoutInput == C8_NothingToMerge /\ []C8_Ends
\* a run that ended in a directory holding a file that is not a JSON file
C8_Witness ==
    /\ mpc = "done" /\ run = 1 /\ dir_exists /\ Len(files) = 1 /\ NoJsonFile
    /\ writes = <<>>

\* C9 (as claimed): every file written has a name that was not in the
\* directory
C9_NeverOverwrites == \A i \in 1..Len(writes) : writes[i].fresh
====
